---- MODULE Spec2Model ----
(***************************************************************************)
(* Verification model of wcrbrm/record-screen.                             *)
(*                                                                         *)
(* Two parts share this module:                                            *)
(*   - the recording lifecycle (service.rs: start, stop) running as        *)
(*     concurrently spawned tasks over one shared RecordingState, with     *)
(*     the encoder processes and their progress channels: specification   *)
(*     Spec from the state after construction, SpecCycle from the state    *)
(*     after one complete recording cycle, SpecStatus with the status      *)
(*     requests of endpoints.rs, SpecWorkers with the worker threads of    *)
(*     the runtime that polls the tasks;                                   *)
(*   - the progress protocol parser (runner.rs: the task spawned by       *)
(*     FfmpegBuilder::run, parse_line, handle_parse_error) fed with line   *)
(*     streams: specification SpecParser, and SpecParserFair with a        *)
(*     consumer that keeps polling.                                        *)
(***************************************************************************)
EXTENDS Integers, Sequences, FiniteSets, TLC

VARIABLES
    state,      \* the shared RecordingState behind Arc<Mutex<..>>
    task,       \* the start/stop tasks spawned by handle_start/handle_stop
    proc,       \* the encoder processes spawned so far, indexed by process id
    chan,       \* the progress channel of each session, indexed by process id
    clock,      \* the local clock, in minutes
    snap,       \* the snapshot request of handle_status and its answer
    workers,    \* the number of worker threads of the async runtime
    acc,        \* parser: the Progress record being accumulated
    tx_open,    \* parser: the channel still accepts items (not closed)
    queue,      \* parser: items sent on the channel and not yet received
    delivered,  \* parser: items the consumer has received, in order
    ppc,        \* parser: position of the parser task
    last,       \* parser: the outcome of the latest read (history)
    nread,      \* parser: number of reads made (history)
    markers,    \* parser: number of valid marker lines read (history)
    closer,     \* parser: the read at which the channel was closed (history)
    since       \* parser: the reads since the marker before last (history)

lifeVars == <<state, task, proc, chan, clock, snap, workers>>
parserVars == <<acc, tx_open, queue, delivered, ppc, last, nread, markers, closer, since>>
vars == <<state, task, proc, chan, clock, snap, workers,
          acc, tx_open, queue, delivered, ppc, last, nread, markers, closer, since>>

(***************************************************************************)
(* Bounds of the model.                                                    *)
(***************************************************************************)
MaxTasks == 2
MaxClock == 1
MaxLines == 3
MaxWorkers == 2

(***************************************************************************)
(* File names.  start builds "<video dir>/<timestamp>.mp4"; a name is kept *)
(* as its directory tokens, its minute stamp and its suffix tokens, and    *)
(* str::replace rewrites every ".mp4" token it meets.                      *)
(***************************************************************************)
VideoDir == <<"Videos">>

NoFile == [dir |-> <<>>, stamp |-> 0, ext |-> <<>>]

OutFile(now) == [dir |-> VideoDir, stamp |-> now, ext |-> <<".mp4">>]

RECURSIVE ReplaceTokens(_)
ReplaceTokens(s) ==
    IF s = <<>> THEN <<>>
    ELSE <<(IF Head(s) = ".mp4" THEN ".compressed.mp4" ELSE Head(s))>>
             \o ReplaceTokens(Tail(s))

CompressedName(f) ==
    [dir |-> ReplaceTokens(f.dir), stamp |-> f.stamp, ext |-> ReplaceTokens(f.ext)]

(***************************************************************************)
(* RecordingState.  Option<Progress> is <<>> for None and <<p>> for        *)
(* Some(p).                                                                *)
(***************************************************************************)
Waiting == [type |-> "Waiting"]

Started(pid, f) ==
    [type |-> "Started", progress |-> <<>>, process_id |-> pid, file |-> f]

Stopping(pid, f) == [type |-> "Stopping", process_id |-> pid, file |-> f]

Compressing(pid, in, out) ==
    [type |-> "Compressing", process_id |-> pid, input |-> in, output |-> out]

Done(f) == [type |-> "Done", file |-> f]

(***************************************************************************)
(* Progress (runner.rs 33-58) and the items of a progress channel,         *)
(* Result<Progress>.                                                       *)
(***************************************************************************)
EmptyProgress ==
    [frame |-> <<>>, fps |-> <<>>, total_size |-> <<>>, out_time |-> <<>>,
     dup_frames |-> <<>>, drop_frames |-> <<>>, speed |-> <<>>, status |-> "Continue"]

OkItem(p) == [tag |-> "Ok", progress |-> p, error |-> "", text |-> <<>>]

ErrItem(e, x) == [tag |-> "Err", progress |-> EmptyProgress, error |-> e, text |-> x]

\* RecordingState::set_progress, service.rs 34-45: Started takes the
\* progress, every other variant is left as it is.
set_progress(s, p) ==
    IF s.type = "Started" THEN [s EXCEPT !.progress = <<p>>] ELSE s

(***************************************************************************)
(* Tasks, processes and channels.                                          *)
(***************************************************************************)
TaskIds == 1..MaxTasks

\* entry: the state the task read at its precondition check (history);
\* clean: no other task has written the state since (history);
\* guard: the task holds the MutexGuard of the state.
NoState == [type |-> "None"]

IdleTask ==
    [kind |-> "none", pc |-> "idle", target |-> 0, child |-> 0,
     input |-> NoFile, output |-> NoFile,
     entry |-> NoState, clean |-> TRUE, guard |-> FALSE]

Pids == 1..Len(proc)

\* A task that has returned or panicked: its locals are dropped.
Ended(tk, how) == [IdleTask EXCEPT !.kind = tk.kind, !.pc = how]

\* A start that forgets to refuse Started.
StartAllowed_ForgetsStarted(cur) == cur.type \notin {"Stopping", "Compressing"}

\* start's precondition: the state it read is Waiting or Done.
StartAllowed(cur) == cur.type \in {"Waiting", "Done"}

\* A stop that matches the wrong variant.
StopAllowed_WrongVariant(cur) == cur.type = "Stopping"

\* stop's precondition: the state it read is Started.
StopAllowed(cur) == cur.type = "Started"

(***************************************************************************)
(* The lock.  Every access is `mx.clone().lock().await` inside one         *)
(* statement (service.rs 55, 90, 115, 127, 152, 169; endpoints.rs 26): the *)
(* MutexGuard is a temporary, dropped at the end of that statement, before *)
(* the next await.                                                         *)
(***************************************************************************)
\* A guard bound to a variable, which lives on after the statement.
TemporaryGuardLives_Bound == TRUE

\* Whether the guard outlives the statement that took it.
TemporaryGuardLives == FALSE

\* lock().await returns: no task holds the guard.
LockFree == \A u \in TaskIds : ~task[u].guard

\* The task has read the state and has a write of its own still to make.
InWindow(tk) ==
    \/ tk.pc \in {"spawn", "accept", "publish"}
    \/ tk.kind = "stop" /\ tk.pc \in {"stopping", "kill", "wait", "drain", "finish"}

\* The tasks after task t has written the state and become tk.
AfterWrite(t, tk) ==
    [u \in TaskIds |->
        IF u = t THEN tk
        ELSE IF InWindow(task[u]) THEN [task[u] EXCEPT !.clean = FALSE]
        ELSE task[u]]

(***************************************************************************)
(* endpoints.rs: the handlers spawn the operation and return at once.      *)
(* Task slots are taken in order.                                          *)
(***************************************************************************)
FreeSlot(t) ==
    /\ task[t].pc = "idle"
    /\ \A u \in TaskIds : u < t => task[u].pc # "idle"

handle_start(t) ==
    /\ FreeSlot(t)
    /\ task' = [task EXCEPT ![t] = [IdleTask EXCEPT !.kind = "start", !.pc = "check"]]
    /\ UNCHANGED <<state, proc, chan, clock>>
    /\ UNCHANGED <<snap, workers, parserVars>>

handle_stop(t) ==
    /\ FreeSlot(t)
    /\ task' = [task EXCEPT ![t] = [IdleTask EXCEPT !.kind = "stop", !.pc = "check"]]
    /\ UNCHANGED <<state, proc, chan, clock>>
    /\ UNCHANGED <<snap, workers, parserVars>>

(***************************************************************************)
(* service.rs start, lines 55-66: read the state under the lock, bail      *)
(* unless Waiting or Done, then derive the output name from the clock     *)
(* (chrono::Local::now() at minute resolution).  Since the last reading    *)
(* the minute is the same or a later one; names are only compared for      *)
(* equality, so one later minute stands for any later minute.              *)
(***************************************************************************)
StartCheck(t) ==
    /\ task[t].kind = "start" /\ task[t].pc = "check"
    /\ LockFree
    /\ IF StartAllowed(state)
       THEN \E now \in {clock, clock + 1} :
                /\ now <= MaxClock
                /\ clock' = now
                /\ task' = [task EXCEPT ![t].pc = "spawn", ![t].output = OutFile(now),
                                        ![t].entry = state,
                                        ![t].guard = TemporaryGuardLives]
       ELSE /\ task' = [task EXCEPT ![t] = Ended(task[t], "failed")]
            /\ clock' = clock
    /\ UNCHANGED <<state, proc, chan>>
    /\ UNCHANGED <<snap, workers, parserVars>>

(***************************************************************************)
(* service.rs stop, lines 115-124: read the state under the lock, bail     *)
(* unless Started, keep its process id and file, derive the output name.   *)
(***************************************************************************)
StopCheck(t) ==
    /\ task[t].kind = "stop" /\ task[t].pc = "check"
    /\ LockFree
    /\ IF StopAllowed(state)
       THEN task' = [task EXCEPT ![t].pc = "stopping",
                                 ![t].entry = state,
                                 ![t].guard = TemporaryGuardLives,
                                 ![t].target = state.process_id,
                                 ![t].input = state.file,
                                 ![t].output = CompressedName(state.file)]
       ELSE task' = [task EXCEPT ![t] = Ended(task[t], "failed")]
    /\ UNCHANGED <<state, proc, chan, clock>>
    /\ UNCHANGED <<snap, workers, parserVars>>

(***************************************************************************)
(* runner.rs run, lines 157-166: bind the listener, spawn the encoder and  *)
(* accept its connection.  Each may fail, and then run returns the error;  *)
(* the callers unwrap the result, so the task panics.  bind and spawn fail *)
(* before there is a process; accept fails on a connection the running     *)
(* encoder attempts.                                                       *)
(***************************************************************************)
\* A spawned encoder: a capture, or the compression of the recording made by
\* the capture process `src`.  sigint: an interrupt has been sent to it.
NewProc(k, src) ==
    [kind |-> k, source |-> src, status |-> "running", sigint |-> FALSE,
     connected |-> FALSE]

\* The unbounded channel of a session, as the lifecycle sees it: whether it
\* holds items not yet received, and whether the sender has closed it.
NewChan == [closed |-> FALSE, pending |-> FALSE]

RunSpawn(t) ==
    /\ task[t].pc = "spawn"
    /\ proc' = Append(proc, IF task[t].kind = "start"
                             THEN NewProc("capture", 0)
                             ELSE NewProc("compress", task[t].target))
    /\ chan' = Append(chan, NewChan)
    /\ task' = [task EXCEPT ![t].pc = "accept", ![t].child = Len(proc) + 1]
    /\ UNCHANGED <<state, clock>>
    /\ UNCHANGED <<snap, workers, parserVars>>

RunFail(t) ==
    /\ \/ task[t].pc = "spawn"
       \/ /\ task[t].pc = "accept"
          /\ proc[task[t].child].status = "running"
          /\ ~proc[task[t].child].connected
    /\ task' = [task EXCEPT ![t] = Ended(task[t], "panicked")]
    /\ UNCHANGED <<state, proc, chan, clock>>
    /\ UNCHANGED <<snap, workers, parserVars>>

(***************************************************************************)
(* runner.rs run, lines 166-262: accept the encoder's connection (no       *)
(* timeout: the call waits for as long as the encoder does not connect),   *)
(* create the channel and spawn the parser task.                           *)
(***************************************************************************)
\* An accept that gives up waiting and returns without a connection.
RunAccept_GivesUp(t) ==
    /\ task[t].pc = "accept"
    /\ ~proc[task[t].child].connected
    /\ task' = [task EXCEPT ![t].pc = "publish"]
    /\ UNCHANGED <<state, proc, chan, clock>>
    /\ UNCHANGED <<snap, workers, parserVars>>

RunAccept(t) ==
    /\ task[t].pc = "accept"
    /\ proc[task[t].child].status = "running"
    /\ ~proc[task[t].child].connected
    /\ proc' = [proc EXCEPT ![task[t].child].connected = TRUE]
    /\ task' = [task EXCEPT ![t].pc = "publish"]
    /\ UNCHANGED <<state, chan, clock>>
    /\ UNCHANGED <<snap, workers, parserVars>>

(***************************************************************************)
(* service.rs start, lines 88-95: publish Started when the id is positive. *)
(***************************************************************************)
StartPublish(t) ==
    /\ task[t].kind = "start" /\ task[t].pc = "publish"
    /\ IF task[t].child > 0
       THEN /\ LockFree
            /\ state' = Started(task[t].child, task[t].output)
            /\ task' = AfterWrite(t, [task[t] EXCEPT !.pc = "drain",
                                                     !.guard = TemporaryGuardLives])
       ELSE /\ state' = state
            /\ task' = [task EXCEPT ![t].pc = "drain"]
    /\ UNCHANGED <<proc, chan, clock>>
    /\ UNCHANGED <<snap, workers, parserVars>>

(***************************************************************************)
(* service.rs stop, lines 127-130: publish Stopping.                       *)
(***************************************************************************)
StopPublishStopping(t) ==
    /\ task[t].kind = "stop" /\ task[t].pc = "stopping"
    /\ LockFree
    /\ state' = Stopping(task[t].target, task[t].input)
    /\ task' = AfterWrite(t, [task[t] EXCEPT !.pc = "kill",
                                             !.guard = TemporaryGuardLives])
    /\ UNCHANGED <<proc, chan, clock>>
    /\ UNCHANGED <<snap, workers, parserVars>>

(***************************************************************************)
(* service.rs stop, lines 133-137: kill(pid, SIGINT).expect(..).  The      *)
(* signal reaches a running or an exited, unreaped process; for a reaped   *)
(* one kill fails and expect panics.                                       *)
(***************************************************************************)
StopKill(t) ==
    /\ task[t].kind = "stop" /\ task[t].pc = "kill"
    /\ IF proc[task[t].target].status = "reaped"
       THEN /\ task' = [task EXCEPT ![t] = Ended(task[t], "panicked")]
            /\ proc' = proc
       ELSE /\ task' = [task EXCEPT ![t].pc = "wait"]
            /\ proc' = [proc EXCEPT ![task[t].target].sigint = TRUE]
    /\ UNCHANGED <<state, chan, clock>>
    /\ UNCHANGED <<snap, workers, parserVars>>

(***************************************************************************)
(* service.rs stop, line 140: waitpid(pid).expect(..) blocks until the     *)
(* process has exited and reaps it; for a process already reaped it fails  *)
(* and expect panics.                                                      *)
(***************************************************************************)
\* A wait that does not block.
WaitReturns_NoBlock(p) == TRUE

WaitReturns(p) == p.status # "running"

StopWait(t) ==
    /\ task[t].kind = "stop" /\ task[t].pc = "wait"
    /\ WaitReturns(proc[task[t].target])
    /\ IF proc[task[t].target].status = "reaped"
       THEN /\ task' = [task EXCEPT ![t] = Ended(task[t], "panicked")]
            /\ proc' = proc
       ELSE /\ task' = [task EXCEPT ![t].pc = "spawn"]
            /\ proc' = [proc EXCEPT ![task[t].target].status =
                           IF @ = "exited" THEN "reaped" ELSE @]
    /\ UNCHANGED <<state, chan, clock>>
    /\ UNCHANGED <<snap, workers, parserVars>>

(***************************************************************************)
(* service.rs stop, lines 151-156: publish Compressing.                    *)
(***************************************************************************)
StopPublishCompressing(t) ==
    /\ task[t].kind = "stop" /\ task[t].pc = "publish"
    /\ LockFree
    /\ state' = Compressing(task[t].child, task[t].input, task[t].output)
    /\ task' = AfterWrite(t, [task[t] EXCEPT !.pc = "drain",
                                             !.guard = TemporaryGuardLives])
    /\ UNCHANGED <<proc, chan, clock>>
    /\ UNCHANGED <<snap, workers, parserVars>>

(***************************************************************************)
(* service.rs lines 96-108 and 159-167: progress.for_each(..).await takes  *)
(* the items one by one and ends when the channel is closed and empty.     *)
(***************************************************************************)
\* The items a session's channel may carry, as far as the closure tells them
\* apart: a record or an error.
DrainItems == {OkItem(EmptyProgress), ErrItem("IoError", <<>>)}

\* A closure that stores the record it is given (the call commented out at
\* service.rs 101).
OnItem_SetsProgress(s, x) == IF x.tag = "Ok" THEN set_progress(s, x.progress) ELSE s

\* The closure of for_each, service.rs 98-106 and 161-166: a record is
\* printed, an error is dropped; the shared state is not touched.
OnItem(s, x) == s

DrainItem(t) ==
    /\ task[t].pc = "drain"
    /\ chan[task[t].child].pending
    /\ \E more \in BOOLEAN : chan' = [chan EXCEPT ![task[t].child].pending = more]
    /\ chan' # chan
    /\ state' \in {OnItem(state, x) : x \in DrainItems}
    /\ UNCHANGED <<task, proc, clock>>
    /\ UNCHANGED <<snap, workers, parserVars>>

\* A drain that stops at the first empty poll.
DrainEnded_OnEmpty(c) == ~c.pending

DrainEnded(c) == ~c.pending /\ c.closed

DrainEnd(t) ==
    /\ task[t].pc = "drain"
    /\ DrainEnded(chan[task[t].child])
    /\ task' = [task EXCEPT ![t] = IF task[t].kind = "start"
                                   THEN Ended(task[t], "done")
                                   ELSE [task[t] EXCEPT !.pc = "finish"]]
    /\ UNCHANGED <<state, proc, chan, clock>>
    /\ UNCHANGED <<snap, workers, parserVars>>

(***************************************************************************)
(* service.rs stop, lines 169-176: publish Done, remove the input file.    *)
(***************************************************************************)
StopPublishDone(t) ==
    /\ task[t].kind = "stop" /\ task[t].pc = "finish"
    /\ LockFree
    /\ state' = Done(task[t].output)
    /\ task' = AfterWrite(t, Ended(task[t], "done"))
    /\ UNCHANGED <<proc, chan, clock>>
    /\ UNCHANGED <<snap, workers, parserVars>>

(***************************************************************************)
(* The environment of the lifecycle: an encoder exits (on the interrupt    *)
(* or on its own), the parser task of a session (runner.rs 170-257) puts   *)
(* an item on the channel or closes it.                                    *)
(***************************************************************************)
ProcExit(p) ==
    /\ p \in Pids
    /\ proc[p].status = "running"
    /\ proc' = [proc EXCEPT ![p].status = "exited"]
    /\ UNCHANGED <<state, task, chan, clock>>
    /\ UNCHANGED <<snap, workers, parserVars>>

ParserEmit(p) ==
    /\ p \in Pids
    /\ proc[p].connected
    /\ ~chan[p].closed
    /\ ~chan[p].pending
    /\ chan' = [chan EXCEPT ![p].pending = TRUE]
    /\ UNCHANGED <<state, task, proc, clock>>
    /\ UNCHANGED <<snap, workers, parserVars>>

ParserClose(p) ==
    /\ p \in Pids
    /\ proc[p].connected
    /\ ~chan[p].closed
    /\ chan' = [chan EXCEPT ![p].closed = TRUE]
    /\ UNCHANGED <<state, task, proc, clock>>
    /\ UNCHANGED <<snap, workers, parserVars>>

(***************************************************************************)
(* endpoints.rs handle_status, lines 22-28: a status request takes the     *)
(* lock, clones the state and answers with the clone.                      *)
(***************************************************************************)
NoSnapshot == [pending |-> FALSE, answer |-> <<>>]

\* GET /api/status arrives.
StatusRequest ==
    /\ ~snap.pending
    /\ snap' = [pending |-> TRUE, answer |-> <<>>]
    /\ UNCHANGED <<state, task, proc, chan, clock>>
    /\ UNCHANGED <<workers, parserVars>>

handle_status ==
    /\ snap.pending
    /\ LockFree
    /\ snap' = [pending |-> FALSE, answer |-> <<state>>]
    /\ UNCHANGED <<state, task, proc, chan, clock>>
    /\ UNCHANGED <<workers, parserVars>>

(***************************************************************************)
(*                     The progress protocol parser                        *)
(*                                                                         *)
(* A line is a sequence of characters; a key or the word of a status is    *)
(* one token, as no space and no "=" occurs inside it.                     *)
(***************************************************************************)
IsSpace(c) == c \in {" ", "\n", "\t", "\r"}

RECURSIVE TrimStart(_)
TrimStart(s) ==
    IF s # <<>> /\ IsSpace(Head(s)) THEN TrimStart(Tail(s)) ELSE s

RECURSIVE TrimEnd(_)
TrimEnd(s) ==
    IF s # <<>> /\ IsSpace(s[Len(s)]) THEN TrimEnd(SubSeq(s, 1, Len(s) - 1)) ELSE s

Trim(s) == TrimEnd(TrimStart(s))

\* Position of the first "=", 0 when there is none.
RECURSIVE FirstEq(_, _)
FirstEq(s, i) ==
    IF i > Len(s) THEN 0
    ELSE IF s[i] = "=" THEN i
    ELSE FirstEq(s, i + 1)

\* runner.rs parse_line: <<>> for None, <<[key, value]>> for Some((key, value)).
parse_line(line) ==
    LET trimmed == Trim(line)
        i == FirstEq(trimmed, 1)
    IN  IF i = 0 THEN <<>>
        ELSE <<[key |-> TrimEnd(SubSeq(trimmed, 1, i - 1)),
                value |-> TrimStart(SubSeq(trimmed, i + 1, Len(trimmed)))]>>

(***************************************************************************)
(* str::parse for u64 and f64: <<>> for Err, <<x>> for Ok(x).  A float is  *)
(* kept exactly, as mantissa m and scale s: m / 10^s, without trailing     *)
(* zeros (an optional sign, digits, at most one ".", a digit at least; the *)
(* model's lines use no exponent and no inf/nan spelling).                 *)
(***************************************************************************)
DigitChars == <<"0", "1", "2", "3", "4", "5", "6", "7", "8", "9">>

IsDigit(c) == \E d \in 1..10 : DigitChars[d] = c

DigitValue(c) == (CHOOSE d \in 1..10 : DigitChars[d] = c) - 1

AllDigits(s) == \A i \in 1..Len(s) : IsDigit(s[i])

RECURSIVE Decimal(_)
Decimal(s) ==
    IF s = <<>> THEN 0
    ELSE 10 * Decimal(SubSeq(s, 1, Len(s) - 1)) + DigitValue(s[Len(s)])

\* u64: an optional "+", then digits only.  The values of the model's lines
\* are far below u64::MAX, so the overflow error of parse does not arise.
ParseU64(v) ==
    LET digits == IF v # <<>> /\ Head(v) = "+" THEN Tail(v) ELSE v
    IN  IF digits = <<>> \/ ~AllDigits(digits) THEN <<>>
        ELSE <<Decimal(digits)>>

RECURSIVE FirstDot(_, _)
FirstDot(s, i) ==
    IF i > Len(s) THEN 0
    ELSE IF s[i] = "." THEN i
    ELSE FirstDot(s, i + 1)

RECURSIVE Normal(_)
Normal(f) ==
    IF f.s > 0 /\ f.m % 10 = 0 THEN Normal([m |-> f.m \div 10, s |-> f.s - 1]) ELSE f

ParseF64(v) ==
    LET signed == v # <<>> /\ Head(v) \in {"+", "-"}
        body == IF signed THEN Tail(v) ELSE v
        dot == FirstDot(body, 1)
        int == IF dot = 0 THEN body ELSE SubSeq(body, 1, dot - 1)
        frac == IF dot = 0 THEN <<>> ELSE SubSeq(body, dot + 1, Len(body))
        sign == IF signed /\ Head(v) = "-" THEN -1 ELSE 1
    IN  IF ~AllDigits(int) \/ ~AllDigits(frac) \/ int \o frac = <<>> THEN <<>>
        ELSE <<Normal([m |-> sign * Decimal(int \o frac), s |-> Len(frac)])>>

\* Duration::from_micros
MicrosPerSec == 1000000
NanosPerMicro == 1000
from_micros(us) ==
    [secs |-> us \div MicrosPerSec, nanos |-> (us % MicrosPerSec) * NanosPerMicro]

\* Bytes of a character in UTF-8.
ByteLen(c) == IF c = "e-acute" THEN 2 ELSE 1

\* &value[..(value.len() - 1)]: <<>> when the slice panics (empty value: the
\* subtraction overflows or the range is out of bounds; a last character of
\* several bytes: the end is no character boundary), else <<the prefix>>.
StripLastByte(v) ==
    IF v = <<>> THEN <<>>
    ELSE IF ByteLen(v[Len(v)]) > 1 THEN <<>>
    ELSE <<SubSeq(v, 1, Len(v) - 1)>>

(***************************************************************************)
(* The sender's operations on the channel.                                 *)
(***************************************************************************)
\* tx.send(item).await / tx.feed(item).await: the item is queued while the
\* channel is open; on a closed channel it is refused and the error ignored.
Feed(ch, item) == IF ch.open THEN [ch EXCEPT !.q = Append(@, item)] ELSE ch

\* let _ = tx.send(item) / let _ = tx.feed(item), without .await: the future
\* is dropped before it is polled, so nothing is sent.
FeedDropped(ch, item) == ch

\* tx.close_channel(): nothing more is accepted; what is queued stays.
Close(ch) == [ch EXCEPT !.open = FALSE]

\* runner.rs handle_parse_error
handle_parse_error(ch, x) == Close(Feed(ch, ErrItem("OtherParseError", x)))

\* An unknown status that forgets to close the channel.
UnknownStatus_NoClose(ch, x) == FeedDropped(ch, ErrItem("UnknownStatusError", x))

\* runner.rs 229-238: the arm of an unknown progress value.
UnknownStatus(ch, x) == Close(FeedDropped(ch, ErrItem("UnknownStatusError", x)))

\* runner.rs 253-254: a line without "=".
NoKeyValue(ch, line) == Close(FeedDropped(ch, ErrItem("KeyValueParseError", line)))

\* An accumulator that is kept after the flush.
AfterFlush_Keep(a) == a

\* runner.rs 248: progress = Default::default()
AfterFlush(a) == EmptyProgress

Step(ch, a) == [open |-> ch.open, q |-> ch.q, acc |-> a, panic |-> FALSE]

Panic(ch, a) == [open |-> ch.open, q |-> ch.q, acc |-> a, panic |-> TRUE]

\* An arm that keeps the first value of a field.
Numeric_KeepsFirst(ch, a, field, parsed, text) ==
    IF parsed = <<>>
    THEN LET c == handle_parse_error(ch, text) IN Step(c, a)
    ELSE Step(ch, IF a[field] = <<>> THEN [a EXCEPT ![field] = parsed] ELSE a)

\* The arm of a key whose value is parsed by `parsed` and stored in `field`.
Numeric(ch, a, field, parsed, text) ==
    IF parsed = <<>>
    THEN LET c == handle_parse_error(ch, text) IN Step(c, a)
    ELSE Step(ch, [a EXCEPT ![field] = parsed])

\* runner.rs 225-249: the progress key.
Marker(ch, a, value) ==
    LET known == value \in {<<"continue">>, <<"end">>}
        c1 == IF known THEN ch ELSE UnknownStatus(ch, value)
        status == IF value = <<"continue">> THEN "Continue" ELSE "End"
        c2 == Feed(c1, OkItem([a EXCEPT !.status = status]))
    IN  Step(c2, AfterFlush([a EXCEPT !.status = status]))

\* runner.rs 191-255: one line, from parse_line to the end of the loop body.
ProcessLine(ch, a, line) ==
    LET kv == parse_line(line) IN
    IF kv = <<>> THEN Step(NoKeyValue(ch, line), a)
    ELSE
      LET key == kv[1].key
          value == kv[1].value
      IN  CASE key = <<"frame">> -> Numeric(ch, a, "frame", ParseU64(value), value)
            [] key = <<"fps">> -> Numeric(ch, a, "fps", ParseF64(value), value)
            [] key = <<"total_size">> -> Numeric(ch, a, "total_size", ParseU64(value), value)
            [] key = <<"out_time_us">> ->
                 LET us == ParseU64(value)
                 IN  Numeric(ch, a, "out_time",
                             IF us = <<>> THEN <<>> ELSE <<from_micros(us[1])>>, value)
            [] key = <<"dup_frames">> -> Numeric(ch, a, "dup_frames", ParseU64(value), value)
            [] key = <<"drop_frames">> -> Numeric(ch, a, "drop_frames", ParseU64(value), value)
            [] key = <<"speed">> ->
                 LET num == StripLastByte(value)
                 IN  IF num = <<>> THEN Panic(ch, a)
                     ELSE Numeric(ch, a, "speed", ParseF64(num[1]), num[1])
            [] key = <<"progress">> -> Marker(ch, a, value)
            [] OTHER -> Step(ch, a)

(***************************************************************************)
(* What the connection carries: lines, and reads that fail with some bytes *)
(* already in the buffer.                                                  *)
(***************************************************************************)
Lines ==
    { <<"frame", "=", "1", "0", "\n">>,
      <<"frame", "=", "7", "\n">>,
      <<"frame", "=", "x", "\n">>,
      <<"fps", " ", "=", " ", "2", ".", "5", "0", "\n">>,
      <<"total_size", "=", "+", "2", "0", "\n">>,
      <<"out_time_us", "=", "1", "0", "0", "0", "0", "0", "1", "\n">>,
      <<"dup_frames", "=", "1", "\n">>,
      <<"drop_frames", "=", "2", "\n">>,
      <<"drop_frames", "=", "-", "1", "\n">>,
      <<"speed", "=", "1", ".", "2", "x", "\n">>,
      <<"speed", "=", "x", "\n">>,
      <<"speed", "=", "\n">>,
      <<"progress", "=", "continue", "\n">>,
      <<" ", "progress", "=", "end", "\n">>,
      <<"progress", "=", "bogus", "\n">>,
      <<"bitrate", "=", "5", "\n">>,
      <<"foo", "\n">>,
      <<"\n">> }

Partials == { <<>>, <<"progress", "=", "continue">> }

ReadLineOf(l) == [kind |-> "line", text |-> l]
ReadErrOf(b) == [kind |-> "err", text |-> b]
ReadEof == [kind |-> "eof", text |-> <<>>]
NoRead == [kind |-> "none", text |-> <<>>]

\* The line is a progress line with a value the parser knows.
ValidMarker(line) ==
    LET kv == parse_line(line)
    IN  kv # <<>> /\ kv[1].key = <<"progress">>
                 /\ kv[1].value \in {<<"continue">>, <<"end">>}

ParserInit ==
    /\ acc = EmptyProgress
    /\ tx_open = TRUE
    /\ queue = <<>>
    /\ delivered = <<>>
    /\ ppc = "reading"
    /\ last = NoRead
    /\ nread = 0
    /\ markers = 0
    /\ closer = <<>>
    /\ since = <<>>

\* The reads since the latest valid marker line, that line excluded: `since`
\* keeps the marker as its last read until the next read starts afresh.
AfterMarker == last.kind = "line" /\ ValidMarker(last.text)
SinceMarker == IF AfterMarker THEN <<>> ELSE since

\* runner.rs 174-256: one turn of the loop on a read that did not return 0.
Turn(r) ==
    LET ch0 == [open |-> tx_open, q |-> queue]
        ch1 == IF r.kind = "err" THEN Close(Feed(ch0, ErrItem("IoError", <<>>))) ELSE ch0
        res == ProcessLine(ch1, acc, r.text)
    IN  /\ tx_open' = (res.open /\ ~res.panic)
        /\ queue' = res.q
        /\ acc' = res.acc
        /\ ppc' = IF res.panic THEN "panicked" ELSE "reading"
        /\ last' = r
        /\ nread' = nread + 1
        /\ markers' = IF r.kind = "line" /\ ValidMarker(r.text) THEN markers + 1 ELSE markers
        /\ closer' = IF tx_open /\ ~(res.open /\ ~res.panic) THEN <<r>> ELSE closer
        /\ since' = Append(SinceMarker, r)
        /\ delivered' = delivered

ReadLine(l) ==
    /\ ppc = "reading"
    /\ nread < MaxLines
    /\ Turn(ReadLineOf(l))
    /\ UNCHANGED lifeVars

ReadError(b) ==
    /\ ppc = "reading"
    /\ nread < MaxLines
    /\ Turn(ReadErrOf(b))
    /\ UNCHANGED lifeVars

\* An end of stream that ends the task and leaves the channel open.
ReadEnd_NoClose ==
    /\ ppc = "reading"
    /\ ppc' = "ended"
    /\ last' = ReadEof
    /\ UNCHANGED <<acc, tx_open, queue, delivered, nread, markers, closer, since>>
    /\ UNCHANGED lifeVars

\* runner.rs 179-183: a read of 0 bytes closes the channel and ends the task.
ReadEnd ==
    /\ ppc = "reading"
    /\ tx_open' = FALSE
    /\ ppc' = "ended"
    /\ last' = ReadEof
    /\ closer' = IF tx_open THEN <<ReadEof>> ELSE closer
    /\ UNCHANGED <<acc, queue, delivered, nread, markers, since>>
    /\ UNCHANGED lifeVars

\* The consumer (for_each in start, stop and main) takes the next item.
Receive ==
    /\ queue # <<>>
    /\ delivered' = Append(delivered, Head(queue))
    /\ queue' = Tail(queue)
    /\ UNCHANGED <<acc, tx_open, ppc, last, nread, markers, closer, since>>
    /\ UNCHANGED lifeVars


\* A number of workers that the tasks of the model cannot exhaust.
Ample == MaxTasks + 1

LifeInit ==
    /\ snap = NoSnapshot
    /\ workers = Ample
    /\ state = Waiting
    /\ task = [t \in TaskIds |-> IdleTask]
    /\ proc = <<>>
    /\ chan = <<>>
    /\ clock = 0

Init == LifeInit /\ ParserInit

Next ==
    \/ \E t \in TaskIds : handle_start(t)
    \/ \E t \in TaskIds : handle_stop(t)
    \/ \E t \in TaskIds : StartCheck(t)
    \/ \E t \in TaskIds : StopCheck(t)
    \/ \E t \in TaskIds : RunSpawn(t)
    \/ \E t \in TaskIds : RunFail(t)
    \/ \E t \in TaskIds : RunAccept(t)
    \/ \E t \in TaskIds : StartPublish(t)
    \/ \E t \in TaskIds : StopPublishStopping(t)
    \/ \E t \in TaskIds : StopKill(t)
    \/ \E t \in TaskIds : StopWait(t)
    \/ \E t \in TaskIds : StopPublishCompressing(t)
    \/ \E t \in TaskIds : DrainItem(t)
    \/ \E t \in TaskIds : DrainEnd(t)
    \/ \E t \in TaskIds : StopPublishDone(t)
    \/ \E p \in Pids : ProcExit(p)
    \/ \E p \in Pids : ParserEmit(p)
    \/ \E p \in Pids : ParserClose(p)

Spec == Init /\ [][Next]_vars

\* The lifecycle with status requests; the scheduler is fair to the handler.
NextStatus ==
    \/ Next
    \/ StatusRequest
    \/ handle_status

SpecStatus == Init /\ [][NextStatus]_vars /\ WF_vars(handle_status)

(***************************************************************************)
(* The scheduler.  The operations are tasks of the async runtime            *)
(* (tokio::spawn, endpoints.rs 18 and 34; the parser, runner.rs 170; the   *)
(* handlers themselves), polled by its worker threads.  A task gives its   *)
(* worker back at an await; stop has none between the write of Stopping    *)
(* and run() (service.rs 127-150): kill and waitpid are plain system calls *)
(* made on the worker that polls the task, and waitpid keeps that worker   *)
(* until the process has exited.  In Spec, SpecCycle and SpecStatus the    *)
(* workers are ample, so that every interleaving is possible; SpecWorkers  *)
(* runs the service on 1..MaxWorkers workers.                              *)
(***************************************************************************)
\* The task is inside a poll that has not returned: it keeps a worker.
Blocking(tk) == tk.kind = "stop" /\ tk.pc \in {"kill", "wait"}

\* A worker is idle and can poll a task that is ready.
FreeWorker == Cardinality({u \in TaskIds : Blocking(task[u])}) < workers

\* Task t can take a step: it is on a worker already, or a worker is free.
CanRun(t) == Blocking(task[t]) \/ FreeWorker

WorkersInit ==
    /\ snap = NoSnapshot
    /\ workers \in 1..MaxWorkers
    /\ state = Waiting
    /\ task = [t \in TaskIds |-> IdleTask]
    /\ proc = <<>>
    /\ chan = <<>>
    /\ clock = 0

InitWorkers == WorkersInit /\ ParserInit

NextWorkers ==
    \/ \E t \in TaskIds : CanRun(t) /\ handle_start(t)
    \/ \E t \in TaskIds : CanRun(t) /\ handle_stop(t)
    \/ \E t \in TaskIds : CanRun(t) /\ StartCheck(t)
    \/ \E t \in TaskIds : CanRun(t) /\ StopCheck(t)
    \/ \E t \in TaskIds : CanRun(t) /\ RunSpawn(t)
    \/ \E t \in TaskIds : CanRun(t) /\ RunFail(t)
    \/ \E t \in TaskIds : CanRun(t) /\ RunAccept(t)
    \/ \E t \in TaskIds : CanRun(t) /\ StartPublish(t)
    \/ \E t \in TaskIds : CanRun(t) /\ StopPublishStopping(t)
    \/ \E t \in TaskIds : CanRun(t) /\ StopKill(t)
    \/ \E t \in TaskIds : CanRun(t) /\ StopWait(t)
    \/ \E t \in TaskIds : CanRun(t) /\ StopPublishCompressing(t)
    \/ \E t \in TaskIds : CanRun(t) /\ DrainItem(t)
    \/ \E t \in TaskIds : CanRun(t) /\ DrainEnd(t)
    \/ \E t \in TaskIds : CanRun(t) /\ StopPublishDone(t)
    \/ \E p \in Pids : ProcExit(p)
    \/ \E p \in Pids : FreeWorker /\ ParserEmit(p)
    \/ \E p \in Pids : FreeWorker /\ ParserClose(p)
    \/ StatusRequest
    \/ FreeWorker /\ handle_status

SpecWorkers == InitWorkers /\ [][NextWorkers]_vars

(***************************************************************************)
(* The service after one complete recording cycle: stop has written        *)
(* Done{file} (service.rs 169-171) and the tasks of that cycle are gone.   *)
(* Its capture process was interrupted and reaped, its compression has     *)
(* exited, both channels have ended.  The cycle was started in minute 0.   *)
(***************************************************************************)
PriorFile == CompressedName(OutFile(0))

CycleInit ==
    /\ snap = NoSnapshot
    /\ workers = Ample
    /\ state = Done(PriorFile)
    /\ task = [t \in TaskIds |-> IdleTask]
    /\ proc = << [NewProc("capture", 0) EXCEPT !.status = "reaped", !.sigint = TRUE,
                                               !.connected = TRUE],
                 [NewProc("compress", 1) EXCEPT !.status = "exited",
                                                !.connected = TRUE] >>
    /\ chan = << [NewChan EXCEPT !.closed = TRUE], [NewChan EXCEPT !.closed = TRUE] >>
    /\ clock = 0

InitCycle == CycleInit /\ ParserInit

SpecCycle == InitCycle /\ [][Next]_vars

ParserNext ==
    \/ \E l \in Lines : ReadLine(l)
    \/ \E b \in Partials : ReadError(b)
    \/ ReadEnd
    \/ Receive

SpecParser == Init /\ [][ParserNext]_vars

\* The parser with a consumer that keeps polling the channel (for_each).
SpecParserFair == Init /\ [][ParserNext]_vars /\ WF_vars(Receive)

\* Everything sent on the channel so far, in order.
Sent == delivered \o queue

(***************************************************************************)
(*                        The lifecycle claims                             *)
(***************************************************************************)
StartTasks == {t \in TaskIds : task[t].kind = "start"}
StopTasks == {t \in TaskIds : task[t].kind = "stop"}

Solo(t) ==
    /\ \A u \in TaskIds \ {t} :
          \/ task[u].pc \in {"idle", "failed"}
          \/ task[u].kind = "start" /\ task[u].pc \in {"drain", "done", "panicked"}
    /\ Cardinality({u \in StartTasks : task[u].pc \in {"drain", "done"}}) = 1

StopOrderInv(t) ==
    /\ task[t].pc = "stopping" => state = Started(task[t].target, task[t].input)
    /\ task[t].pc \in {"kill", "wait", "spawn", "accept", "publish"}
          => state = Stopping(task[t].target, task[t].input)
    /\ task[t].pc \in {"drain", "finish"}
          => /\ state = Compressing(task[t].child, task[t].input, task[t].output)
             /\ task[t].child # task[t].target
             /\ task[t].output = CompressedName(task[t].input)
    /\ task[t].pc = "finish" => chan[task[t].child].closed /\ ~chan[task[t].child].pending
    /\ task[t].pc = "done" => state.type = "Done"

StopOrderStep(t) ==
    (task[t].pc = "finish" /\ task'[t].pc = "done")
        => /\ state' = Done(task[t].output)
           /\ state = Compressing(task[t].child, task[t].input, task[t].output)
           /\ chan[task[t].child].closed /\ ~chan[task[t].child].pending

\* C3: a stop that passed its precondition on Started{process_id, file}, with
\* no other task making a transition, publishes Stopping{process_id, file},
\* then Compressing{new process id, input = file, output}, then
\* Done{file = output}, the state holding no other value in between, and
\* writes Done only once the compression channel is closed and empty.
C3_StopOrder ==
    /\ [](\A t \in StopTasks : Solo(t) => StopOrderInv(t))
    /\ [][\A t \in TaskIds : (task[t].kind = "stop" /\ Solo(t)) => StopOrderStep(t)]_vars

\* A stop has run to Done, alone, after its compression emitted an item.
C3_Witness ==
    \E t \in StopTasks :
        /\ task[t].pc = "done"
        /\ Solo(t)
        /\ state.type = "Done"
        /\ state.file.ext = <<".compressed.mp4">>

\* C4: a compression process exists only if the capture process whose
\* recording it compresses has been sent the interrupt, has exited and has
\* been reaped.
C4_CompressAfterReap ==
    \A p \in Pids :
        proc[p].kind = "compress"
            => /\ proc[proc[p].source].status = "reaped"
               /\ proc[proc[p].source].sigint

\* A compression process runs, its capture process reaped.
C4_Witness ==
    \E p \in Pids :
        /\ proc[p].kind = "compress"
        /\ proc[p].status = "running"
        /\ proc[proc[p].source].status = "reaped"

\* The step is run() returning an error to task t, which then panics.
RunFails(t) == task[t].pc \in {"spawn", "accept"} /\ task'[t].pc = "panicked"

\* C11: when run() fails inside start or inside stop, the operation aborts
\* and, no other task having written the state meanwhile, the shared state is
\* the one the operation read when it was called: no transition of its own
\* is visible.
C11_RunFailureLeavesState ==
    [][\A t \in TaskIds :
         (RunFails(t) /\ task[t].clean) => state' = task[t].entry]_vars

Edges ==
    {<<"Waiting", "Started">>, <<"Done", "Started">>, <<"Started", "Stopping">>,
     <<"Stopping", "Compressing">>, <<"Compressing", "Done">>}

\* C14: under every interleaving of start and stop tasks the shared state
\* changes only along the edges Waiting->Started, Done->Started,
\* Started->Stopping, Stopping->Compressing and Compressing->Done.
C14_OnlyLifecycleEdges ==
    [][state' # state => <<state.type, state'.type>> \in Edges]_vars

\* The capture encoders that are recording: running, connected to their
\* supervisor and not interrupted.
LiveCaptures ==
    {p \in Pids : /\ proc[p].kind = "capture"
                  /\ proc[p].status = "running"
                  /\ proc[p].connected
                  /\ ~proc[p].sigint}

\* No task is in the middle of announcing process p: no start is about to
\* publish Started for it, no stop has published Stopping for it and is about
\* to send the interrupt.
Settled(p) ==
    \A t \in TaskIds :
        /\ ~(task[t].kind = "start" /\ task[t].child = p /\ task[t].pc = "publish")
        /\ ~(task[t].kind = "stop" /\ task[t].target = p /\ task[t].pc = "kill")

\* C15: at most one capture encoder that has not been interrupted exists at
\* any time, and while one exists (and no task is in the middle of announcing
\* it) the shared state is Started with its process id.
C15_OneCaptureAndItIsStarted ==
    /\ Cardinality(LiveCaptures) <= 1
    /\ \A p \in LiveCaptures :
          Settled(p) => state.type = "Started" /\ state.process_id = p

\* C12: starting from Done{file = f}, a successful start followed by a
\* successful stop ends in Done{file = g} with g different from f, whatever
\* the minutes in which the two cycles were started.
C12_NewFileEachCycle ==
    \A t \in StopTasks :
        (task[t].pc = "done" /\ state.type = "Done") => state.file # PriorFile

\* C19: no task holds the lock between two of its steps, so at none of its
\* suspension or blocking points (accept, channel await, signal, process
\* wait); every status request is eventually answered; the answer is the
\* state at that moment, and answering does not change the state.
C19_SnapshotAnswered ==
    /\ [](\A t \in TaskIds : ~task[t].guard)
    /\ [][(snap.pending /\ ~snap'.pending)
            => snap'.answer = <<state>> /\ state' = state]_vars
    /\ (snap.pending ~> ~snap.pending)

\* A status request was answered with Stopping while a stop waits in accept
\* for its compression encoder.
C19_Witness ==
    /\ snap.answer = <<state>>
    /\ state.type = "Stopping"
    /\ \E t \in StopTasks : task[t].pc = "accept"

\* Task t is inside run(), at listener.accept(), and the encoder has not
\* connected.
AtAccept(t) == task[t].pc = "accept" /\ ~proc[task[t].child].connected

\* The encoder of task t is gone without having connected: it never will.
Hung(t) == AtAccept(t) /\ proc[task[t].child].status # "running"

\* The state the operation of task t has left, as of its last write.
LeftBy(t) ==
    IF task[t].kind = "start" THEN task[t].entry
    ELSE Stopping(task[t].entry.process_id, task[t].entry.file)

\* C20 as stated: while the encoder has not connected, the shared state stays
\* at the Waiting or Done value start was called from, and at Stopping after
\* stop.
C20_StateStaysPut ==
    \A t \in TaskIds : AtAccept(t) => state = LeftBy(t)

\* C20 as amended: while the encoder has not connected, run() does not return
\* successfully (the task leaves accept only when the running encoder connects
\* or accept fails on its attempt; never once the encoder is gone); the task
\* writes nothing meanwhile; and as long as no other task writes the state it
\* is the Waiting or Done value start was called from, or Stopping after stop.
C20_HungOperationWritesNothing ==
    /\ [](\A t \in TaskIds : (AtAccept(t) /\ task[t].clean) => state = LeftBy(t))
    /\ [][\A t \in TaskIds :
            AtAccept(t) =>
              /\ task'[t].pc # "accept"
                    => /\ proc[task[t].child].status = "running"
                       /\ proc'[task[t].child].connected \/ task'[t].pc = "panicked"
              /\ (task'[t].pc = "accept" /\ state' # state) => ~task'[t].clean
              /\ Hung(t) => task'[t].pc = "accept"]_vars

\* The compression encoder of a stop exited without connecting: the stop
\* hangs in run() with the state left at Stopping.
C20_Witness ==
    \E t \in StopTasks :
        /\ Hung(t)
        /\ task[t].clean
        /\ state.type = "Stopping"

\* Stop task t is blocked in waitpid: the capture process has not exited.
InWaitpid(t) ==
    /\ task[t].kind = "stop" /\ task[t].pc = "wait"
    /\ proc[task[t].target].status = "running"

\* C21: while a stop is blocked waiting for the capture process to exit,
\* whatever the number of workers, the other tasks can take their steps: a
\* start whose channel holds an item can take it, a parser task whose
\* session is open can send, a pending status request can be answered.
C21_OthersStepDuringWait ==
    (\E t \in TaskIds : InWaitpid(t)) =>
        /\ \A u \in StartTasks :
              (task[u].pc = "drain" /\ chan[task[u].child].pending)
                  => ENABLED (CanRun(u) /\ DrainItem(u))
        /\ \A p \in Pids :
              (proc[p].connected /\ ~chan[p].closed /\ ~chan[p].pending)
                  => ENABLED (FreeWorker /\ ParserEmit(p))
        /\ snap.pending => ENABLED (FreeWorker /\ handle_status)

\* A progress event is taken from a session's channel in this step.
Delivery == \E p \in Pids : chan[p].pending /\ ~chan'[p].pending

\* C22: whenever the shared state is Started its progress field is none:
\* start writes Started with no progress, and the delivery of a progress
\* event on a session's channel leaves the shared state as it is.
C22_StartedHasNoProgress ==
    /\ [](state.type = "Started" => state.progress = <<>>)
    /\ [][Delivery => state' = state]_vars

\* The state is Started with no progress, written by a start that now drains
\* the channel of that capture, and a progress event on it is being delivered
\* to the start's closure.
C22_Witness ==
    /\ state.type = "Started"
    /\ state.progress = <<>>
    /\ \E t \in StartTasks :
          /\ task[t].pc = "drain"
          /\ task[t].child = state.process_id
          /\ chan[task[t].child].pending
          /\ ENABLED DrainItem(t)

(***************************************************************************)
(*                         The parser claims                               *)
(***************************************************************************)
\* The latest step was a turn of the parser's loop on a line it read.
ReadsLine == nread' = nread + 1 /\ last'.kind = "line"

Records(items) == {i \in 1..Len(items) : items[i].tag = "Ok"}

KeyOf(line) == parse_line(line)[1].key
ValueOf(line) == parse_line(line)[1].value

StatusOf(line) == IF ValueOf(line) = <<"continue">> THEN "Continue" ELSE "End"

\* The channel was closed by reading this line, of this kind.
ClosedByLine(P(_)) ==
    closer # <<>> /\ closer[1].kind = "line" /\ P(closer[1].text)

HasNoEq(line) == parse_line(line) = <<>>

\* C5: when the parser reads a line without "=", the consumer is sent a
\* KeyValueParseError item carrying the raw line, as the last item of the
\* channel, and the channel is closed.
C5_NoEqSurfaced ==
    ClosedByLine(HasNoEq)
        => /\ ~tx_open
           /\ Sent # <<>>
           /\ Sent[Len(Sent)] = ErrItem("KeyValueParseError", closer[1].text)

\* C6 as stated: every valid marker line read, whatever came before it,
\* delivers exactly one record with the accumulated fields and the matching
\* status, and resets the accumulator.
C6_MarkerAlwaysFlushes ==
    [][(ReadsLine /\ ValidMarker(last'.text))
         => /\ queue' = Append(queue, OkItem([acc EXCEPT !.status = StatusOf(last'.text)]))
            /\ acc' = EmptyProgress]_vars

\* C6 as amended: a valid marker line read while the channel is open delivers
\* exactly one record with the accumulated fields and the matching status;
\* read after the channel was closed it delivers nothing; either way the
\* accumulator is reset.
C6_MarkerFlushesWhileOpen ==
    [][(ReadsLine /\ ValidMarker(last'.text))
         => /\ acc' = EmptyProgress
            /\ delivered' = delivered
            /\ IF tx_open
               THEN /\ queue' = Append(queue, OkItem([acc EXCEPT !.status = StatusOf(last'.text)]))
                    /\ tx_open'
               ELSE queue' = queue /\ ~tx_open']_vars

\* Two records were received: the first with fps set, the second, after the
\* reset, without it.
C6_Witness ==
    /\ Len(delivered) = 2
    /\ delivered[1].tag = "Ok" /\ delivered[1].progress.fps # <<>>
    /\ delivered[1].progress.status = "Continue"
    /\ delivered[2].tag = "Ok" /\ delivered[2].progress.fps = <<>>
    /\ delivered[2].progress.status = "End"

\* C7: a record enters the channel only in the turn that reads a valid
\* marker line, one record for that line; so the records sent never
\* outnumber the valid marker lines read, and no other line, no failed read
\* and no end of stream adds a record.
C7_RecordsOnlyFromMarkers ==
    /\ [](Cardinality(Records(Sent)) <= markers)
    /\ [][Cardinality(Records(delivered' \o queue')) # Cardinality(Records(Sent))
            => /\ ReadsLine /\ ValidMarker(last'.text)
               /\ Cardinality(Records(delivered' \o queue')) = Cardinality(Records(Sent)) + 1]_vars

\* One record was sent for one valid marker, and then a progress line with an
\* unknown value was read: it added no record.
C7_Witness ==
    /\ markers = 1
    /\ Cardinality(Records(Sent)) = 1
    /\ last.kind = "line"
    /\ parse_line(last.text) # <<>>
    /\ KeyOf(last.text) = <<"progress">>
    /\ ~ValidMarker(last.text)

\* C8: once a record with status End has been delivered, no further record
\* is delivered.
C8_EndIsLast ==
    \A i, j \in 1..Len(delivered) :
        (i < j /\ delivered[i].tag = "Ok" /\ delivered[i].progress.status = "End")
            => delivered[j].tag # "Ok"

IsUnknownStatus(line) ==
    parse_line(line) # <<>> /\ KeyOf(line) = <<"progress">> /\ ~ValidMarker(line)

\* C9: when the parser reads a progress line with an unknown value, the
\* consumer is sent an UnknownStatusError item carrying that value, as the
\* last item of the channel, and the channel is closed.
C9_UnknownStatusSurfaced ==
    ClosedByLine(IsUnknownStatus)
        => /\ ~tx_open
           /\ Sent # <<>>
           /\ Sent[Len(Sent)] = ErrItem("UnknownStatusError", ValueOf(closer[1].text))

NumericKeys ==
    {<<"frame">>, <<"fps">>, <<"total_size">>, <<"out_time_us">>,
     <<"dup_frames">>, <<"drop_frames">>, <<"speed">>}

\* The value of a numeric key that does not parse (for speed: the value
\* without its unit character, when there is one).
Unparsable(line) ==
    /\ parse_line(line) # <<>>
    /\ KeyOf(line) \in NumericKeys
    /\ LET v == ValueOf(line)
       IN  CASE KeyOf(line) \in {<<"fps">>} -> ParseF64(v) = <<>>
             [] KeyOf(line) = <<"speed">> ->
                  v = <<>> \/ ParseF64(SubSeq(v, 1, Len(v) - 1)) = <<>>
             [] OTHER -> ParseU64(v) = <<>>

\* The text that failed to parse.
FailedText(line) ==
    LET v == ValueOf(line)
    IN  IF KeyOf(line) = <<"speed">> /\ v # <<>> THEN SubSeq(v, 1, Len(v) - 1) ELSE v

\* C10: when the value of a numeric key cannot be parsed, the consumer is
\* sent exactly one OtherParseError item carrying the text that failed, as
\* the last item of the channel, and the channel is closed.
C10_ParseErrorSurfaced ==
    ClosedByLine(Unparsable)
        => /\ ~tx_open
           /\ Sent # <<>>
           /\ Sent[Len(Sent)] = ErrItem("OtherParseError", FailedText(closer[1].text))
           /\ Cardinality({i \in 1..Len(Sent) : Sent[i].tag = "Err"}) = 1

(***************************************************************************)
(* What the valid numeric lines of the model carry, written out by hand:   *)
(* the field each one sets and the value it sets it to.                    *)
(***************************************************************************)
Carried ==
    { [line |-> <<"frame", "=", "1", "0", "\n">>, field |-> "frame", value |-> 10],
      [line |-> <<"frame", "=", "7", "\n">>, field |-> "frame", value |-> 7],
      [line |-> <<"fps", " ", "=", " ", "2", ".", "5", "0", "\n">>,
       field |-> "fps", value |-> [m |-> 25, s |-> 1]],
      [line |-> <<"total_size", "=", "+", "2", "0", "\n">>,
       field |-> "total_size", value |-> 20],
      [line |-> <<"out_time_us", "=", "1", "0", "0", "0", "0", "0", "1", "\n">>,
       field |-> "out_time", value |-> [secs |-> 1, nanos |-> 1000]],
      [line |-> <<"dup_frames", "=", "1", "\n">>, field |-> "dup_frames", value |-> 1],
      [line |-> <<"drop_frames", "=", "2", "\n">>, field |-> "drop_frames", value |-> 2],
      [line |-> <<"speed", "=", "1", ".", "2", "x", "\n">>,
       field |-> "speed", value |-> [m |-> 12, s |-> 1]] }

Fields ==
    {"frame", "fps", "total_size", "out_time", "dup_frames", "drop_frames", "speed"}

\* The positions of the reads `hist` that are valid lines setting `field`.
Setting(field, hist) ==
    {i \in 1..Len(hist) :
        /\ hist[i].kind = "line"
        /\ \E c \in Carried : c.line = hist[i].text /\ c.field = field}

\* What `field` must be after the reads `hist`: unset, or the value of the
\* last valid line that sets it.
Expected(field, hist) ==
    IF Setting(field, hist) = {} THEN <<>>
    ELSE LET i == CHOOSE k \in Setting(field, hist) : \A j \in Setting(field, hist) : j <= k
             c == CHOOSE d \in Carried : d.line = hist[i].text
         IN  <<c.value>>

UnknownKey(line) ==
    /\ parse_line(line) # <<>>
    /\ KeyOf(line) \notin NumericKeys \cup {<<"progress">>}

\* C13: in every record sent, each numeric field is set if and only if a
\* valid line with its key was read since the previous marker (or the start
\* of the session), and then holds the value of the last such line; a line
\* with an unknown key changes neither the accumulator nor the channel.
C13_FieldsFromLinesSinceMarker ==
    /\ [][(Len(queue') = Len(queue) + 1 /\ queue'[Len(queue')].tag = "Ok")
            => \A f \in Fields :
                  queue'[Len(queue')].progress[f] = Expected(f, SinceMarker)]_vars
    /\ [][(ReadsLine /\ UnknownKey(last'.text))
            => acc' = acc /\ queue' = queue /\ tx_open' = tx_open]_vars

\* frame=10, frame=7 and a marker were read: the record carries frame 7 and
\* no other field.
C13_Witness ==
    /\ Len(since) = 3
    /\ since[1].text = <<"frame", "=", "1", "0", "\n">>
    /\ since[2].text = <<"frame", "=", "7", "\n">>
    /\ AfterMarker
    /\ Sent = <<OkItem([EmptyProgress EXCEPT !.frame = <<7>>,
                                             !.status = StatusOf(last.text)])>>

\* The latest step was a turn of the parser's loop on a read that failed.
ReadFails == nread' = nread + 1 /\ last'.kind = "err"

\* C16: on a read failure the parser sends one I/O error item, closes the
\* channel and stops: the buffer of the failed read is not processed as a
\* line (the accumulator is untouched) and the task does not go back to
\* reading.
C16_ReadFailureStops ==
    [][ReadFails
         => /\ tx_open => queue' = Append(queue, ErrItem("IoError", <<>>))
            /\ ~tx_open'
            /\ acc' = acc
            /\ ppc' # "reading"]_vars

\* C17: at the end of the stream the parser closes the channel, sends nothing
\* for the end of stream itself and its task ends: it reads and sends nothing
\* more; the consumer then drains what is queued and its for_each completes
\* on the closed, empty channel.
C17_EndOfStreamCloses ==
    /\ [][(ppc = "reading" /\ ppc' = "ended")
            => /\ ~tx_open'
               /\ queue' = queue /\ delivered' = delivered /\ acc' = acc]_vars
    /\ [][ppc = "ended"
            => /\ ppc' = "ended" /\ nread' = nread /\ ~tx_open'
               /\ delivered' \o queue' = Sent]_vars
    /\ (ppc = "ended" ~> (queue = <<>> /\ ~tx_open))

\* The stream ended after a record was sent, and the consumer has drained
\* the channel.
C17_Witness ==
    /\ ppc = "ended"
    /\ last = ReadEof
    /\ queue = <<>>
    /\ ~tx_open
    /\ Len(delivered) = 1 /\ delivered[1].tag = "Ok"

IsSpeedLine(line) == parse_line(line) # <<>> /\ KeyOf(line) = <<"speed">>

\* C18: for every speed line, the empty value and a value of one character
\* included, the parser either sets the speed field (and leaves the channel
\* alone) or closes the channel on a parse error; its task never crashes.
C18_SpeedNeverCrashes ==
    [][(ReadsLine /\ IsSpeedLine(last'.text))
         => /\ ppc' = "reading"
            /\ \/ acc'.speed # <<>> /\ queue' = queue /\ tx_open' = tx_open
               \/ ~tx_open' /\ acc' = acc]_vars

====
